---- MODULE Spec2Model ----
(***************************************************************************)
(* State-machine model of orbitize/sampler.py: the OFTI rejection sampler  *)
(* (prepare_samples, reject, run_sampler) and the two MCMC adapters        *)
(* (PTMCMC.run_sampler, EnsembleMCMC.run_sampler).                         *)
(*                                                                         *)
(* Numbers.  A numpy float is a normalised rational <<n, d>> with d > 0,   *)
(* or NaN == <<0, 0>>.  Angles in radians are stored in units of pi/2, so  *)
(* that 2*pi is 4 and rotations by the angles used here stay exact;        *)
(* angles in degrees are stored as degrees.  Arrays are functions on       *)
(* 0..n-1, with the indices of the source.                                 *)
(***************************************************************************)
EXTENDS Integers, Sequences, FiniteSets, TLC

\* ------------------------------------------------------------------ bounds
MaxTotalOrbits == 2
MaxNumSamples == 2
MaxIterations == 2
MaxCalls == 2

\* ------------------------------------------------------- program constants
NumElements == 8
TwoPi == 4
HalfTurnDeg == 180
RowSma == 0
RowLan == 3
RowTau == 5

\* ------------------------------------------------------ float arithmetic
NaN == <<0, 0>>

IsNaN(x) == x[2] = 0

Abs(n) == IF n < 0 THEN -n ELSE n

RECURSIVE Gcd(_, _)
Gcd(a, b) == IF b = 0 THEN a ELSE Gcd(b, a % b)

Rat(n, d) ==
    IF d = 0 THEN NaN
    ELSE LET g == Gcd(Abs(n), Abs(d))
             s == IF d < 0 THEN -1 ELSE 1
         IN <<(s * n) \div g, (s * d) \div g>>

Num(n) == <<n, 1>>

FAdd(a, b) == IF IsNaN(a) \/ IsNaN(b) THEN NaN
              ELSE Rat(a[1] * b[2] + b[1] * a[2], a[2] * b[2])

FNeg(a) == IF IsNaN(a) THEN NaN ELSE <<-a[1], a[2]>>

FSub(a, b) == FAdd(a, FNeg(b))

FMul(a, b) == IF IsNaN(a) \/ IsNaN(b) THEN NaN
              ELSE Rat(a[1] * b[1], a[2] * b[2])

FDiv(a, b) == IF IsNaN(a) \/ IsNaN(b) THEN NaN
              ELSE Rat(a[1] * b[2], a[2] * b[1])

\* a comparison with NaN is False, as in IEEE arithmetic
FGreater(a, b) == /\ ~IsNaN(a)
                  /\ ~IsNaN(b)
                  /\ a[1] * b[2] > b[1] * a[2]

FGeq(a, b) == /\ ~IsNaN(a)
              /\ ~IsNaN(b)
              /\ a[1] * b[2] >= b[1] * a[2]

\* Python's %: the result has the sign of the (positive) modulus m
FMod(a, m) == IF IsNaN(a) THEN NaN
              ELSE FSub(a, Num(m * ((a[1]) \div (a[2] * m))))

\* np.radians, in the stored unit of pi/2 per 90 degrees
Radians(deg) == FDiv(FMul(deg, Num(TwoPi \div 2)), Num(HalfTurnDeg))

\* a Python list / array literal as a function on 0..n-1
Arr(s) == [i \in 0..(Len(s) - 1) |-> s[i + 1]]

Size(a) == Cardinality(DOMAIN a)

\* ------------------------------------------- external collaborators
\* The orbit propagator, the coordinate conversion, the likelihood and the
\* priors are other modules of the package.  They are modelled from their
\* interface on the exact lattice used here: orbits face-on (inc 0 or pi),
\* seen at periastron or apoastron, angles multiples of pi/2.

\* days in a year, for .to(u.day); whole days keep the arithmetic exact
DaysPerYear == 365

\* Kepler's third law, as the square of the period in days (the period itself
\* is irrational); NaN where np.sqrt gets a negative argument.
Period2(sma, mtot) ==
    IF IsNaN(sma) \/ IsNaN(mtot) \/ sma[1] < 0 THEN NaN
    ELSE FDiv(FMul(Num(DaysPerYear * DaysPerYear), FMul(sma, FMul(sma, sma))), mtot)

\* tau = epoch / period - meananno, kept as the triple <<epoch, period^2, meananno>>
TauOf(epoch, period2, meananno) == <<epoch, period2, meananno>>

TauIsFinite(tau) == /\ ~IsNaN(tau[2])
                    /\ tau[2][1] > 0
                    /\ ~IsNaN(tau[3])

RECURSIVE CountUp(_, _, _)
CountUp(k, n, lim) == IF (k + 1) * (k + 1) * n <= lim THEN CountUp(k + 1, n, lim) ELSE k

\* floor(2 * t / period): the number of half orbits completed at time t
HalfOrbits(t, period2) == CountUp(0, period2[1], 4 * t * t * period2[2])

Floor(x) == x[1] \div x[2]

Sin4(q) == IF q % 4 = 1 THEN 1 ELSE IF q % 4 = 3 THEN -1 ELSE 0

Cos4(q) == IF q % 4 = 0 THEN 1 ELSE IF q % 4 = 2 THEN -1 ELSE 0

\* orbitize.kepler.calc_orbit for one orbit at one epoch: <<raoff, deoff>>
calc_orbit(epoch, sma, ecc, tau, argp, lan, inc, plx, mtot) ==
    LET period2 == Period2(sma, mtot)
    IN IF \/ IsNaN(period2) \/ period2[1] = 0
          \/ ~TauIsFinite(tau)
          \/ IsNaN(ecc) \/ IsNaN(argp) \/ IsNaN(lan) \/ IsNaN(inc) \/ IsNaN(plx)
       THEN <<NaN, NaN>>
       ELSE LET manom == (HalfOrbits(epoch, period2) - HalfOrbits(tau[1], tau[2])
                            + Floor(FMul(Num(2), tau[3]))) % 2
                radius == IF manom = 0 THEN FMul(sma, FSub(Num(1), ecc))
                          ELSE FMul(sma, FAdd(Num(1), ecc))
                nu == 2 * manom
                theta == IF Floor(inc) % 4 = 0
                         THEN nu + Floor(argp) + Floor(lan)
                         ELSE Floor(lan) - nu - Floor(argp)
            IN <<FMul(FMul(radius, plx), Num(Sin4(theta))),
                 FMul(FMul(radius, plx), Num(Cos4(theta)))>>

\* orbitize.system.radec2seppa: <<sep, pa in degrees, 0 <= pa < 360>>
radec2seppa(ra, dec) ==
    IF IsNaN(ra) \/ IsNaN(dec) THEN <<NaN, NaN>>
    ELSE <<IF dec[1] = 0 THEN Num(Abs(ra[1])) ELSE IF ra[1] = 0 THEN <<Abs(dec[1]), dec[2]>> ELSE NaN,
           IF ra[1] = 0 THEN (IF dec[1] >= 0 THEN Num(0) ELSE Num(180))
           ELSE IF dec[1] = 0 THEN (IF ra[1] > 0 THEN Num(90) ELSE Num(270))
           ELSE NaN>>

\* orbitize.lnlike.chi2_lnlike for one epoch, one quantity, one orbit
chi2_lnlike(data, err, model) ==
    LET z == FDiv(FSub(data, model), err) IN FMul(z, z)

\* ------------------------------------------------------------- systems
DefaultPriors == << {Num(2)}, {Num(0)}, {Num(0)}, {Num(0)},
                    {Num(0)}, {TauOf(0, Num(1), Num(0))}, {Num(1)}, {Num(1)} >>

WithPrior(p, i, S) == [p EXCEPT ![i + 1] = S]

\* data table rows: <<epoch, quant1, quant2, quant1_err, quant2_err>>
SeppaTable == << <<1000, Num(2), Num(90), Num(1), Num(90)>>,
                 <<2500, Num(3), Num(0), Num(2), Num(90)>> >>

\* the same observations with the second row given as RA/Dec offsets
RadecTable == << <<1000, Num(2), Num(90), Num(1), Num(90)>>,
                 <<2500, Num(0), Num(3), Num(2), Num(0)>> >>

System(name, priors, table, radec) ==
    [name |-> name, sys_priors |-> priors, data_table |-> table,
     radec |-> radec, seppa |-> (0..(Len(table) - 1)) \ radec]

Half == <<1, 2>>

Systems ==
    { System("ecc", WithPrior(DefaultPriors, 1, {Num(0), Half}), SeppaTable, {}),
      System("radec", WithPrior(DefaultPriors, 1, {Num(0), Half}), RadecTable, {1}),
      System("shape", WithPrior(WithPrior(DefaultPriors, 0, {Num(1), Num(2)}),
                                1, {Num(0), Half}),
             SeppaTable, {}),
      System("orient", WithPrior(WithPrior(DefaultPriors, 2, {Num(0), Num(1)}),
                                 4, {Num(0), Num(2)}),
             SeppaTable, {}),
      System("angles", WithPrior(WithPrior(DefaultPriors, 3, {Num(0), Num(3)}),
                                 5, {TauOf(0, Num(1), Num(0)), TauOf(0, Num(1), Half)}),
             SeppaTable, {}),
      System("mass", WithPrior(WithPrior(DefaultPriors, 6, {Num(1), Num(2)}),
                               7, {Num(1), Num(2)}),
             SeppaTable, {}),
      System("seven", SubSeq(DefaultPriors, 1, 7), SeppaTable, {}),
      System("nine", DefaultPriors \o << {Num(1)} >>, SeppaTable, {}) }

\* the systems run_sampler is explored on (one free element per candidate)
RunSystems == {s \in Systems : s.name = "ecc"}

\* the values the random source can return
MeanAnomalyDraws == {Half}
SepDeviates == {-3, 1}
PaDeviates == {1}
\* a uniform draw u in [0, 1) is kept as the k with u = exp(-k / 4)
UniformDraws == {4, 6, 80}

\* np.log of such a draw
NpLog(k) == Rat(-k, 4)

\* ---------------------------------------------------------------- state
VARIABLES
    kind,            \* class of the sampler object
    system,          \* self.system
    pc,              \* position of the running method
    err,             \* exception raised, "" if none
    sep_observed, pa_observed, sep_err, pa_err,   \* OFTI fields
    samples_drawn,   \* the prior draws of the last prepare_samples call
    meananno, sep_offset, pa_offset,              \* its random draws
    orbit_configs,   \* the batch returned by prepare_samples
    lnp, random_samples, saved_orbit_idx,         \* locals of reject
    new_orbits,      \* the array returned by reject
    total_orbits, num_samples,                    \* arguments of run_sampler
    n_orbits_saved, output_orbits, orbit_i,       \* locals of run_sampler
    output_lnp,      \* per slot: <<lnp, log of the draw>> of the orbit written
    accepted_log,    \* every orbit accepted so far, in acceptance order
    result,          \* value returned by run_sampler
    curr_pos,        \* self.curr_pos of the MCMC samplers
    pos,             \* local pos of the MCMC run_sampler
    burn_steps, mc_iter, p0_used, calls, prev_end

oftiFields == <<sep_observed, pa_observed, sep_err, pa_err>>
prepVars == <<samples_drawn, meananno, sep_offset, pa_offset, orbit_configs>>
rejVars == <<lnp, random_samples, saved_orbit_idx, new_orbits, accepted_log>>
argVars == <<total_orbits, num_samples>>
runVars == <<n_orbits_saved, output_orbits, orbit_i, output_lnp, result>>
mcVars == <<curr_pos, pos, burn_steps, mc_iter, p0_used, calls, prev_end>>
vars == <<kind, system, pc, err, oftiFields, prepVars, rejVars, argVars, runVars, mcVars>>

Unbound == <<>>

\* ------------------------------------------------------- OFTI.__init__
TableColumn(tbl, c) == [i \in 0..(Len(tbl) - 1) |-> tbl[i + 1][c]]

\* lines 55-63: quant1/quant2 and their errors, RA/Dec rows converted
Observed(sys, c, part) ==
    [i \in 0..(Len(sys.data_table) - 1) |->
        IF i \in sys.radec
        THEN radec2seppa(sys.data_table[i + 1][c], sys.data_table[i + 1][c + 1])[part]
        ELSE sys.data_table[i + 1][c + part - 1]]

\* ------------------------------------------------ OFTI.prepare_samples
\* np.argmin: the first index of the smallest entry
ArgMin(a) ==
    CHOOSE i \in DOMAIN a :
        /\ \A j \in DOMAIN a : FGeq(a[j], a[i])
        /\ \A j \in DOMAIN a : j < i => a[j] # a[i]

Column(samples, j) == [i \in DOMAIN samples |-> samples[i][j]]

SepPa(epoch, o) ==
    LET rd == calc_orbit(epoch, o[0], o[1], o[5], o[2], o[3], o[4], o[7], o[6])
    IN radec2seppa(rd[1], rd[2])

\* lines 80-82: every way the priors can fill a (len(priors), n) array
RECURSIVE DrawRows(_, _, _)
DrawRows(priors, n, k) ==
    IF k = 0 THEN {<<>>}
    ELSE {Append(p, r) : p \in DrawRows(priors, n, k - 1), r \in [0..(n - 1) -> priors[k]]}

DrawSamples(priors, n) == {Arr(s) : s \in DrawRows(priors, n, Len(priors))}

\* a slip in the row indices: lan is written to row 4, the inclination
UpdateSamples_WrongRow(o, sma, lan, tau) ==
    [o EXCEPT ![RowSma] = sma, ![RowLan + 1] = lan, ![RowTau] = tau]

\* lines 126-128, for one column
UpdateSamples(o, sma, lan, tau) ==
    [o EXCEPT ![RowSma] = sma, ![RowLan] = lan, ![RowTau] = tau]

\* lines 84-128 for candidate j: the corrected sma, lan and tau
ScaleAndRotate(o, epochs, so, po, sobs, pobs, serr, m) ==
    LET epoch_idx == ArgMin(serr)
        epoch == epochs[epoch_idx]
        period_prescale == Period2(o[0], o[6])
        tau1 == TauOf(epoch, period_prescale, m)
        seppa == SepPa(epoch, [o EXCEPT ![5] = tau1])
        sma_corr == FDiv(FAdd(so, sobs[epoch_idx]), seppa[1])
        lan_corr == FSub(FAdd(po, pobs[epoch_idx]), seppa[2])
        sma == FMul(o[0], sma_corr)
        lan == FMod(FAdd(o[3], Radians(lan_corr)), TwoPi)
        period_new == Period2(sma, o[6])
        tau == TauOf(epoch, period_new, m)
    IN UpdateSamples(o, sma, lan, tau)

prepare_samples(samples, epochs, so, po, sobs, pobs, serr, m) ==
    [i \in DOMAIN samples |->
        [j \in DOMAIN samples[0] |->
            ScaleAndRotate(Column(samples, j), epochs, so, po, sobs, pobs, serr, m[j])[i]]]

\* ---------------------------------------------------------- OFTI.reject
RECURSIVE NDim(_)
NDim(x) == IF DOMAIN x = 1..2 THEN 0 ELSE 1 + NDim(x[0])

\* calc_orbit and radec2seppa over all epochs: (n_epochs, n) arrays, with the
\* orbit axis squeezed out when there is one orbit
ModelSepPa(epochs, cfg, part) ==
    IF Size(cfg[0]) = 1
    THEN [e \in DOMAIN epochs |-> SepPa(epochs[e], Column(cfg, 0))[part]]
    ELSE [e \in DOMAIN epochs |->
            [i \in DOMAIN cfg[0] |-> SepPa(epochs[e], Column(cfg, i))[part]]]

\* lines 153-155
Unsqueeze(a) == IF NDim(a) = 1 THEN [e \in DOMAIN a |-> Arr(<<a[e]>>)] ELSE a

RECURSIVE NanSum(_, _)
NanSum(a, n) ==
    IF n = 0 THEN Num(0)
    ELSE FAdd(NanSum(a, n - 1), IF IsNaN(a[n]) THEN Num(0) ELSE a[n])

\* lines 157-173: lnp of every orbit of the batch
LnP(cfg, epochs, sobs, pobs, serr, perr) ==
    LET sep == Unsqueeze(ModelSepPa(epochs, cfg, 1))
        pa == Unsqueeze(ModelSepPa(epochs, cfg, 2))
        ne == Size(epochs)
        chi2(i) == [t \in 1..(2 * ne) |->
                      IF t <= ne
                      THEN chi2_lnlike(sobs[t - 1], serr[t - 1], sep[t - 1][i])
                      ELSE chi2_lnlike(pobs[t - ne - 1], perr[t - ne - 1], pa[t - ne - 1][i])]
    IN [i \in DOMAIN cfg[0] |-> FDiv(FNeg(NanSum(chi2(i), 2 * ne)), Num(2))]

\* np.where(mask)[0]: the indices where mask holds, increasing
RECURSIVE Where(_, _, _)
Where(mask, i, n) ==
    IF i = n THEN <<>>
    ELSE (IF mask[i] THEN <<i>> ELSE <<>>) \o Where(mask, i + 1, n)

\* every candidate compared with the first draw instead of its own
SavedOrbitIdx_FirstDraw(l, r) ==
    Arr(Where([i \in DOMAIN l |-> FGreater(l[i], r[0])], 0, Size(l)))

\* lines 176-177
SavedOrbitIdx(l, r) == Arr(Where([i \in DOMAIN l |-> FGreater(l[i], r[i])], 0, Size(l)))

\* the survivors taken by position instead of by saved index
SavedOrbits_ByPosition(cfg, idx) == [k \in DOMAIN idx |-> Column(cfg, k)]

\* line 178
SavedOrbits(cfg, idx) == [k \in DOMAIN idx |-> Column(cfg, idx[k])]

\* ---------------------------------------------------------------- Init
\* walker positions, one walker: a vector of one draw per prior
Positions(sys) == {Column(s, 0) : s \in DrawSamples(sys.sys_priors, 1)}

Kinds == {"OFTI", "PTMCMC", "EnsembleMCMC"}

\* the state after the constructor (lines 46-63, 228-250, 330-351)
Init ==
    /\ kind \in Kinds
    /\ system \in Systems
    /\ pc = "ready"
    /\ err = ""
    /\ sep_observed = IF kind = "OFTI" THEN Observed(system, 2, 1) ELSE <<>>
    /\ pa_observed = IF kind = "OFTI" THEN Observed(system, 2, 2) ELSE <<>>
    /\ sep_err = IF kind = "OFTI" THEN Observed(system, 4, 1) ELSE <<>>
    /\ pa_err = IF kind = "OFTI" THEN Observed(system, 4, 2) ELSE <<>>
    /\ samples_drawn = <<>>
    /\ meananno = <<>>
    /\ sep_offset = Num(0)
    /\ pa_offset = Num(0)
    /\ orbit_configs = <<>>
    /\ lnp = <<>>
    /\ random_samples = <<>>
    /\ saved_orbit_idx = <<>>
    /\ new_orbits = <<>>
    /\ accepted_log = <<>>
    /\ total_orbits = 0
    /\ num_samples = 0
    /\ n_orbits_saved = 0
    /\ output_orbits = <<>>
    /\ orbit_i = 0
    /\ output_lnp = <<>>
    /\ result = <<>>
    /\ curr_pos \in IF kind = "OFTI" THEN {Unbound} ELSE Positions(system)
    /\ pos = Unbound
    /\ burn_steps = 0
    /\ mc_iter = 0
    /\ p0_used = Unbound
    /\ calls = 0
    /\ prev_end = Unbound

\* ------------------------------------------------ prepare_samples, as a step
\* lines 80-130; with other than 8 priors the unpacking at line 90 raises
\* ValueError after the draws of lines 80-82
PrepareSamples(n, next) ==
    \E raw \in DrawSamples(system.sys_priors, n) :
        /\ samples_drawn' = raw
        /\ IF Len(system.sys_priors) # NumElements
           THEN /\ pc' = "raised"
                /\ err' = "ValueError"
                /\ UNCHANGED <<meananno, sep_offset, pa_offset, orbit_configs>>
           ELSE \E m \in [0..(n - 1) -> MeanAnomalyDraws], zs \in SepDeviates,
                   zp \in PaDeviates :
                    LET epoch_idx == ArgMin(sep_err)
                        so == FMul(Num(zs), sep_err[epoch_idx])
                        po == FMul(Num(zp), pa_err[epoch_idx])
                    IN /\ meananno' = m
                       /\ sep_offset' = so
                       /\ pa_offset' = po
                       /\ orbit_configs' =
                            prepare_samples(raw, TableColumn(system.data_table, 1),
                                            so, po, sep_observed, pa_observed, sep_err, m)
                       /\ pc' = next
                       /\ err' = err

\* lines 145-180
Reject(next) ==
    /\ lnp' = LnP(orbit_configs, TableColumn(system.data_table, 1),
                  sep_observed, pa_observed, sep_err, pa_err)
    /\ \E u \in [DOMAIN orbit_configs[0] -> UniformDraws] :
            random_samples' = [i \in DOMAIN u |-> NpLog(u[i])]
    /\ saved_orbit_idx' = SavedOrbitIdx(lnp', random_samples')
    /\ new_orbits' = SavedOrbits(orbit_configs, saved_orbit_idx')
    /\ accepted_log' = accepted_log \o [k \in 1..Size(new_orbits') |-> new_orbits'[k - 1]]
    /\ pc' = next

\* ----------------------------------------- direct calls of the two methods
CallPrepareSamples ==
    /\ kind = "OFTI"
    /\ pc = "ready"
    /\ system \notin RunSystems
    /\ \E n \in 1..MaxNumSamples :
        /\ num_samples' = n
        /\ PrepareSamples(n, "prepared")
    /\ UNCHANGED <<kind, system, oftiFields, rejVars, total_orbits, runVars, mcVars>>

CallReject ==
    /\ kind = "OFTI"
    /\ pc = "prepared"
    /\ Reject("rejected")
    /\ UNCHANGED <<kind, system, err, oftiFields, prepVars, argVars, runVars, mcVars>>

\* ---------------------------------------------------- OFTI.run_sampler
\* lines 197-198
CallRunSampler ==
    /\ kind = "OFTI"
    /\ pc = "ready"
    /\ system \in RunSystems
    /\ \E t \in 1..MaxTotalOrbits, n \in 1..MaxNumSamples :
        /\ total_orbits' = t
        /\ num_samples' = n
        /\ output_orbits' = [i \in 0..(t - 1) |-> Unbound]
        /\ output_lnp' = [i \in 0..(t - 1) |-> Unbound]
    /\ n_orbits_saved' = 0
    /\ pc' = "while"
    /\ UNCHANGED <<kind, system, err, oftiFields, prepVars, rejVars, orbit_i, result, mcVars>>

\* line 202
RunPrepare ==
    /\ pc = "prepare"
    /\ PrepareSamples(num_samples, "reject")
    /\ UNCHANGED <<kind, system, oftiFields, rejVars, argVars, runVars, mcVars>>

\* line 203
RunReject ==
    /\ pc = "reject"
    /\ Reject("if")
    /\ UNCHANGED <<kind, system, err, oftiFields, prepVars, argVars, runVars, mcVars>>

\* line 201, condition true.  The locals of the iteration that ended are
\* assigned again at lines 202-203 before they are read, and are not kept.
WhileEnter ==
    /\ pc = "while"
    /\ n_orbits_saved < total_orbits
    /\ pc' = "prepare"
    /\ samples_drawn' = <<>>
    /\ meananno' = <<>>
    /\ sep_offset' = Num(0)
    /\ pa_offset' = Num(0)
    /\ orbit_configs' = <<>>
    /\ lnp' = <<>>
    /\ random_samples' = <<>>
    /\ saved_orbit_idx' = <<>>
    /\ new_orbits' = <<>>
    /\ orbit_i' = 0
    /\ UNCHANGED <<kind, system, err, oftiFields, accepted_log, argVars,
                   n_orbits_saved, output_orbits, output_lnp, result, mcVars>>

\* the loop ends at the first batch without an accepted orbit
IfEmpty_StopsOnEmpty ==
    /\ pc = "if"
    /\ IF Size(new_orbits) = 0
       THEN /\ pc' = "returned"
            /\ result' = output_orbits
       ELSE /\ pc' = "for"
            /\ result' = result
    /\ orbit_i' = 0
    /\ UNCHANGED <<kind, system, err, oftiFields, prepVars, rejVars, argVars,
                   n_orbits_saved, output_orbits, output_lnp, mcVars>>

\* lines 205-208
IfEmpty ==
    /\ pc = "if"
    /\ IF Size(new_orbits) = 0 THEN pc' = "while" ELSE pc' = "for"
    /\ orbit_i' = 0
    /\ UNCHANGED <<kind, system, err, oftiFields, prepVars, rejVars, argVars,
                   n_orbits_saved, output_orbits, output_lnp, result, mcVars>>

\* lines 208-210: one pass of the for loop, or its end
ForOrbit ==
    /\ pc = "for"
    /\ IF orbit_i < Size(new_orbits)
       THEN IF n_orbits_saved \in DOMAIN output_orbits
            THEN /\ output_orbits' = [output_orbits EXCEPT ![n_orbits_saved] = new_orbits[orbit_i]]
                 /\ output_lnp' = [output_lnp EXCEPT ![n_orbits_saved] =
                                      <<lnp[saved_orbit_idx[orbit_i]],
                                        random_samples[saved_orbit_idx[orbit_i]]>>]
                 /\ n_orbits_saved' = n_orbits_saved + 1
                 /\ orbit_i' = orbit_i + 1
                 /\ UNCHANGED <<pc, err>>
            ELSE /\ pc' = "raised"
                 /\ err' = "IndexError"
                 /\ UNCHANGED <<output_orbits, output_lnp, n_orbits_saved, orbit_i>>
       ELSE /\ pc' = "while"
            /\ UNCHANGED <<err, output_orbits, output_lnp, n_orbits_saved, orbit_i>>
    /\ UNCHANGED <<kind, system, oftiFields, prepVars, rejVars, argVars, result, mcVars>>

\* lines 201 and 212, condition false
Return ==
    /\ pc = "while"
    /\ ~(n_orbits_saved < total_orbits)
    /\ result' = output_orbits
    /\ pc' = "returned"
    /\ UNCHANGED <<kind, system, err, oftiFields, prepVars, rejVars, argVars,
                   n_orbits_saved, output_orbits, orbit_i, output_lnp, mcVars>>

OFTINext ==
    \/ CallPrepareSamples
    \/ CallReject
    \/ CallRunSampler
    \/ WhileEnter
    \/ RunPrepare
    \/ RunReject
    \/ IfEmpty
    \/ ForOrbit
    \/ Return

\* ------------------------- PTMCMC.run_sampler and EnsembleMCMC.run_sampler
\* lines 271-274 and 373-375: sampler.sample(self.curr_pos, iterations=burn_steps)
CallMcmcRunSampler ==
    /\ kind # "OFTI"
    /\ pc = "ready"
    /\ calls < MaxCalls
    /\ \E t \in 1..MaxIterations, b \in 0..MaxIterations :
        /\ total_orbits' = t
        /\ burn_steps' = b
    /\ p0_used' = curr_pos
    /\ pos' = Unbound
    /\ mc_iter' = 0
    /\ pc' = "burn"
    /\ UNCHANGED <<kind, system, err, oftiFields, prepVars, rejVars, num_samples,
                   runVars, curr_pos, calls, prev_end>>

\* lines 274-275 and 375-376: one iteration of the burn-in loop binds pos
BurnStep ==
    /\ pc = "burn"
    /\ mc_iter < burn_steps
    /\ pos' \in Positions(system)
    /\ mc_iter' = mc_iter + 1
    /\ UNCHANGED <<kind, system, pc, err, oftiFields, prepVars, rejVars, argVars,
                   runVars, curr_pos, burn_steps, p0_used, calls, prev_end>>

\* lines 277-281 and 378-382: the burn-in loop is over; pos is read
BurnDone ==
    /\ pc = "burn"
    /\ mc_iter = burn_steps
    /\ IF pos = Unbound
       THEN /\ pc' = "raised"
            /\ err' = "UnboundLocalError"
            /\ UNCHANGED <<curr_pos, p0_used, mc_iter>>
       ELSE /\ curr_pos' = pos
            /\ p0_used' = pos
            /\ mc_iter' = 0
            /\ pc' = "sample"
            /\ err' = err
    /\ UNCHANGED <<kind, system, oftiFields, prepVars, rejVars, argVars, runVars,
                   pos, burn_steps, calls, prev_end>>

\* lines 281-282 and 382-383
SampleStep ==
    /\ pc = "sample"
    /\ mc_iter < total_orbits
    /\ pos' \in Positions(system)
    /\ mc_iter' = mc_iter + 1
    /\ UNCHANGED <<kind, system, pc, err, oftiFields, prepVars, rejVars, argVars,
                   runVars, curr_pos, burn_steps, p0_used, calls, prev_end>>

\* lines 284-288 and 385-389
SampleDone ==
    /\ pc = "sample"
    /\ mc_iter = total_orbits
    /\ curr_pos' = pos
    /\ prev_end' = pos
    /\ calls' = calls + 1
    /\ pc' = "ready"
    /\ UNCHANGED <<kind, system, err, oftiFields, prepVars, rejVars, argVars, runVars,
                   pos, burn_steps, mc_iter, p0_used>>

MCMCNext ==
    \/ CallMcmcRunSampler
    \/ BurnStep
    \/ BurnDone
    \/ SampleStep
    \/ SampleDone

Next == OFTINext \/ MCMCNext

Spec == Init /\ [][Next]_vars

\* an iteration of run_sampler that accepts at least one candidate
AcceptingIteration == pc = "reject" /\ pc' = "if" /\ Size(new_orbits') > 0

\* The interpreter keeps running run_sampler: no step of it is postponed for
\* ever (the calls at lines 202 and 203 are enabled whenever pc is there, and
\* their fairness is stated without ENABLED), and as long as iterations go on,
\* one that accepts a candidate eventually occurs.
FairSpec ==
    /\ Spec
    /\ WF_vars(WhileEnter) /\ WF_vars(IfEmpty) /\ WF_vars(ForOrbit) /\ WF_vars(Return)
    /\ []<>(pc # "prepare")
    /\ []<>(pc # "reject")
    /\ (<>[](pc # "reject") \/ []<><<AcceptingIteration>>_vars)

\* ================================================================ claims
Epochs == TableColumn(system.data_table, 1)

\* a batch returned by prepare_samples is held in orbit_configs
Prepared == kind = "OFTI" /\ pc \in {"prepared", "rejected", "reject", "if", "for"}

\* reject has returned and its result is held in new_orbits
Rejected == kind = "OFTI" /\ pc \in {"rejected", "if", "for"}

\* run_sampler has been called
Running == kind = "OFTI" /\ total_orbits >= 1

Accepted(i) == \E k \in DOMAIN saved_orbit_idx : saved_orbit_idx[k] = i

\* the chi-square of one orbit summed over all epochs and both quantities,
\* a NaN term counting as zero
RECURSIVE ChiSquareSum(_, _)
ChiSquareSum(o, e) ==
    IF e < 0 THEN Num(0)
    ELSE LET m == SepPa(Epochs[e], o)
             cs == chi2_lnlike(sep_observed[e], sep_err[e], m[1])
             cp == chi2_lnlike(pa_observed[e], pa_err[e], m[2])
         IN FAdd(ChiSquareSum(o, e - 1),
                 FAdd(IF IsNaN(cs) THEN Num(0) ELSE cs, IF IsNaN(cp) THEN Num(0) ELSE cp))

LnPOf(o) == FDiv(FNeg(ChiSquareSum(o, Size(Epochs) - 1)), Num(2))

\* C1: run_sampler(T, N) always returns an array of exactly T rows, each an
\* accepted orbit, whatever the number of candidates accepted in each batch:
\* the call never ends in an exception, and what it returns has T rows that
\* were all accepted.
C1_ExactOutputCount ==
    Running =>
        /\ pc # "raised"
        /\ pc = "returned" =>
              /\ DOMAIN result = 0..(total_orbits - 1)
              /\ \A s \in DOMAIN result :
                    \E k \in DOMAIN accepted_log : result[s] = accepted_log[k]

\* C2: the write cursor stays within 0..total_orbits, slots [0, cursor) hold
\* the accepted candidates in acceptance order, and the surplus of a batch is
\* discarded: the for loop never goes on to write at an index >= total_orbits.
C2_CursorStaysInStore ==
    Running =>
        /\ n_orbits_saved \in 0..total_orbits
        /\ \A s \in 0..(n_orbits_saved - 1) : output_orbits[s] = accepted_log[s + 1]
        /\ (pc = "for" /\ orbit_i < Size(new_orbits)) => n_orbits_saved < total_orbits

\* C3: under the fairness assumption that an accepting iteration always
\* eventually occurs, a call of run_sampler eventually returns, in state DONE
\* (accepted count = total_orbits).
C3_EventuallyReturnsDone ==
    (kind = "OFTI" /\ pc = "while") ~> (pc = "returned" /\ n_orbits_saved = total_orbits)

\* C4: a batch with no accepted candidate gives an empty result without an
\* exception, and the iteration that receives it leaves the count and every
\* slot of the store unchanged and goes on to the next iteration.
C4_EmptyBatchIsNoOp ==
    [][ /\ (pc = "reject" /\ \A i \in DOMAIN lnp' : ~FGreater(lnp'[i], random_samples'[i]))
            => (Size(new_orbits') = 0 /\ pc' = "if" /\ err' = "")
        /\ (pc = "if" /\ Size(new_orbits) = 0)
            => /\ pc' = "while"
               /\ err' = ""
               /\ n_orbits_saved' = n_orbits_saved
               /\ output_orbits' = output_orbits
               /\ n_orbits_saved' < total_orbits'
        /\ (pc = "while" /\ n_orbits_saved < total_orbits) => pc' = "prepare" ]_vars

\* an iteration of run_sampler has ended without an accepted orbit, with
\* orbits of earlier batches in the store
C4_Witness ==
    /\ kind = "OFTI"
    /\ pc = "while"
    /\ Size(orbit_configs) > 0
    /\ Size(new_orbits) = 0
    /\ n_orbits_saved > 0
    /\ n_orbits_saved < total_orbits

C5_Survivors ==
    /\ Size(new_orbits) <= Size(orbit_configs[0])
    /\ DOMAIN new_orbits = DOMAIN saved_orbit_idx
    /\ \A k \in DOMAIN new_orbits :
          /\ saved_orbit_idx[k] \in DOMAIN orbit_configs[0]
          /\ new_orbits[k] = Column(orbit_configs, saved_orbit_idx[k])
    /\ \A a, b \in DOMAIN saved_orbit_idx : a < b => saved_orbit_idx[a] < saved_orbit_idx[b]

\* C5: reject returns at most as many vectors as the batch has columns, each
\* equal to a column of the batch, none twice, ordered by strictly increasing
\* column index, and it leaves the batch as it was.
C5_RejectFiltersInOrder ==
    [][ (pc \in {"prepared", "reject"} /\ pc' \in {"rejected", "if"})
            => (orbit_configs' = orbit_configs /\ C5_Survivors') ]_vars

\* reject kept the second of two different columns and dropped the first
C5_Witness ==
    /\ Rejected
    /\ Size(orbit_configs[0]) = 2
    /\ Size(new_orbits) = 1
    /\ saved_orbit_idx[0] = 1
    /\ Column(orbit_configs, 0) # Column(orbit_configs, 1)

\* C6: every candidate of a prepared batch, propagated to the anchor epoch,
\* has the anchor's separation plus the batch's separation offset and the
\* anchor's position angle plus the batch's position-angle offset (as an
\* angle, modulo 360 degrees).
C6_AnchorConsistency ==
    Prepared =>
        \A j \in DOMAIN orbit_configs[0] :
            LET a == ArgMin(sep_err)
                m == SepPa(Epochs[a], Column(orbit_configs, j))
            IN /\ m[1] = FAdd(sep_observed[a], sep_offset)
               /\ m[2] = FMod(FAdd(pa_observed[a], pa_offset), 2 * HalfTurnDeg)

\* C7: every call of the MCMC run_sampler with burn_steps >= 0 completes, with
\* curr_pos the walker positions at the end of the call, and the next call
\* starts sampling from those positions.
C7_CallsResume ==
    kind # "OFTI" =>
        /\ pc # "raised"
        /\ (pc = "ready" /\ calls > 0) => curr_pos = prev_end
        /\ (pc = "burn" /\ calls > 0) => p0_used = prev_end

\* C8: an OFTI sampler on a system without exactly 8 priors fails at
\* construction, before any sample is drawn.
C8_FailsAtConstruction ==
    (kind = "OFTI" /\ Len(system.sys_priors) # NumElements) =>
        (pc = "raised" /\ samples_drawn = <<>>)

\* C9: candidate i is accepted iff lnp_i = -chi2_sum_i / 2 exceeds the log of
\* its own draw, chi2_sum_i being the sum of its own terms; for equal draws a
\* candidate with lower chi2_sum is accepted whenever one with higher is; and
\* every orbit in the store has lnp >= the log of its own draw.
C9_AcceptedIffOwnDraw ==
    /\ Rejected =>
          \A i \in DOMAIN orbit_configs[0] :
              /\ lnp[i] = LnPOf(Column(orbit_configs, i))
              /\ Accepted(i) <=> FGreater(lnp[i], random_samples[i])
              /\ \A j \in DOMAIN orbit_configs[0] :
                    (/\ random_samples[i] = random_samples[j]
                     /\ FGreater(lnp[i], lnp[j])
                     /\ Accepted(j)) => Accepted(i)
    /\ Running =>
          \A s \in 0..(n_orbits_saved - 1) :
              /\ output_lnp[s][1] = LnPOf(output_orbits[s])
              /\ FGeq(output_lnp[s][1], output_lnp[s][2])

\* with equal draws one candidate was accepted and one with a higher
\* chi-square rejected, and the store already holds an orbit
C9_Witness ==
    /\ Rejected
    /\ Running
    /\ n_orbits_saved > 0
    /\ \E i, j \in DOMAIN orbit_configs[0] :
          /\ random_samples[i] = random_samples[j]
          /\ FGreater(lnp[i], lnp[j])
          /\ Accepted(i)
          /\ ~Accepted(j)

====
